---- MODULE Spec2Model ----
(***************************************************************************)
(* Model of the todo API (src/api/src): the user and task endpoints, the   *)
(* idempotency layer in front of them (dependecies.py,                     *)
(* services/idempotency_service.py, repositories/idempotency_repository.py)*)
(* and the single DynamoDB table behind them.                              *)
(*                                                                         *)
(* Strings are sequences of atoms, so that f-strings are concatenations    *)
(* and str.split is a search for a separator atom.  An atom is one         *)
(* character wide, except "LONG", which stands for a run of LongAtomLen    *)
(* characters (a header value longer than the request_id field allows).    *)
(***************************************************************************)
EXTENDS Integers, Sequences, FiniteSets, TLC

\* ------------------------------------------------------------------ bounds
MaxReq == 2
MaxTicks == 1
MaxCreates == 2
MaxBatch == 3

\* ------------------------------------------------------- program constants
RETENTION == 86400
MaxRequestIdLen == 255
MinStatusCode == 100
MaxStatusCode == 599
\* One character more than the request_id field accepts.
LongAtomLen == MaxRequestIdLen + 1

\* ------------------------------------------------------------- input sets
Absent == <<"<absent>">>
Empty == <<>>
None == [kind |-> "none"]

UserIds == {<<"u">>, <<"v">>}
IdemHeaderValues == {Absent, Empty, <<"k">>, <<"LONG">>}
XRequestIdValues == {Absent, <<"k">>, <<"j">>}
AmznRequestIdValues == {Absent, <<"m">>}
TaskIds == {<<"t1">>}
TaskStatus == {"pending", "in_progress", "completed", "cancelled"}
UpdateStatusInputs == {"pending", "completed"}
Endpoints == {"create_user", "update_user", "delete_user",
              "create_task", "update_task", "delete_task"}
UserEndpoints == {"create_user", "update_user", "delete_user"}
TaskEndpoints == {"create_task", "update_task", "delete_task"}
UuidAtoms == <<"uuid1", "uuid2", "uuid3", "uuid4", "uuid5", "uuid6", "uuid7", "uuid8">>

\* ---------------------------------------------------------------- strings
AtomLen(a) == IF a = "LONG" THEN LongAtomLen ELSE 1

RECURSIVE StrLen(_)
StrLen(s) == IF s = <<>> THEN 0 ELSE AtomLen(Head(s)) + StrLen(Tail(s))

\* Python truthiness of an optional string: None and "" are falsy.
Truthy(s) == s # Absent /\ s # Empty

\* s.split(sep): the list of pieces between occurrences of sep.
RECURSIVE SplitFrom(_, _, _)
SplitFrom(s, sep, cur) ==
    IF s = <<>> THEN <<cur>>
    ELSE IF Head(s) = sep THEN <<cur>> \o SplitFrom(Tail(s), sep, <<>>)
    ELSE SplitFrom(Tail(s), sep, Append(cur, Head(s)))

Split(s, sep) == SplitFrom(s, sep, <<>>)

\* ------------------------------------------------------------------- JSON
\* The response_data dicts the controllers pass are {"status": <word>}.
StatusDict(word) == [kind |-> "object", status |-> word]

\* json.dumps of such a dict, with the default separators (", ", ": ").
JsonDumps(d) ==
    <<"{", "\"", "status", "\"", ":", " ", "\"", d.status, "\"", "}">>

\* json.loads of a string; "error" stands for JSONDecodeError.
JsonLoads(s) ==
    IF /\ Len(s) = 10
       /\ SubSeq(s, 1, 7) = <<"{", "\"", "status", "\"", ":", " ", "\"">>
       /\ SubSeq(s, 9, 10) = <<"\"", "}">>
    THEN [kind |-> "object", status |-> s[8]]
    ELSE [kind |-> "error"]

\* ------------------------------------------------------------------ state
VARIABLES
    table,       \* the DynamoDB table: <<PK, SK>> -> item
    now,         \* the wall clock, in seconds since the epoch
    ticks,       \* how often the clock has advanced
    reqs,        \* the request handlers in flight, one per slot
    started,     \* how many requests have arrived
    storeTasks,  \* detached store_response_async coroutines, not yet run
    putTasks,    \* detached create_idempotency coroutines, not yet run
    origin,      \* history: request_id -> the request that wrote the record
                 \* (endpoint, arguments) and the response it returned
    chain,       \* history: request_id -> successful executions in a row that
                 \* each found the previous one's record, and whether the
                 \* last business operation under the key raised
    log,         \* the warnings and errors the idempotency layer has logged
    probe        \* one request whose identifier is being derived

vars == <<table, now, ticks, reqs, started, storeTasks, putTasks, origin,
          chain, log, probe>>

\* ---------------------------------------------------------- the key-value
\* table.put_item(Item=item): unconditional, replaces an existing item.
PutItem(t, item) ==
    LET k == <<item.PK, item.SK>>
    IN [x \in DOMAIN t \cup {k} |-> IF x = k THEN item ELSE t[x]]

\* table.delete_item(Key=k) without condition: no error when absent.
DeleteItem(t, k) == [x \in DOMAIN t \ {k} |-> t[x]]

HasItem(t, k) == k \in DOMAIN t

Metadata == <<"METADATA">>
UserPK(user_id) == <<"USER", "#">> \o user_id
\* A task partition key that leaves the user out.
TaskPK_Unscoped(user_id) == <<"TASK", "#">>
\* pk = f"TASK#{user_id}"
TaskPK(user_id) == <<"TASK", "#">> \o user_id
TaskSK(task_id) == <<"TASK", "#">> \o task_id
IdemPK(request_id) == <<"IDEMPOTENCY", "#">> \o request_id

\* Function update that also extends the domain (history variables).
Upd(f, k, v) == [x \in DOMAIN f \cup {k} |-> IF x = k THEN v ELSE f[x]]

\* ---------------------------------------------------- request identifiers
\* get_request_id without the user scope: the base identifier alone.
get_request_id_Unscoped(hdr, user_id, idempotency_key, uuid) ==
    IF Truthy(idempotency_key) THEN idempotency_key
    ELSE IF Truthy(hdr.xreq) THEN hdr.xreq
    ELSE IF Truthy(hdr.amzn) THEN hdr.amzn
    ELSE uuid

\* dependecies.get_request_id: Idempotency-Key argument > X-Request-ID >
\* X-Amzn-RequestId > uuid4, scoped by the user id when there is one.
get_request_id(hdr, user_id, idempotency_key, uuid) ==
    LET base_request_id ==
            IF Truthy(idempotency_key) THEN idempotency_key
            ELSE IF Truthy(hdr.xreq) THEN hdr.xreq
            ELSE IF Truthy(hdr.amzn) THEN hdr.amzn
            ELSE uuid
    IN IF Truthy(user_id) THEN user_id \o <<":">> \o base_request_id
       ELSE base_request_id

\* generate_request_id without the user scope.
generate_request_id_Unscoped(user_id, custom_id, uuid) ==
    IF Truthy(custom_id) THEN custom_id ELSE uuid

\* IdempotencyService.generate_request_id
generate_request_id(user_id, custom_id, uuid) ==
    LET base_request_id == IF Truthy(custom_id) THEN custom_id ELSE uuid
    IN IF Truthy(user_id) THEN user_id \o <<":">> \o base_request_id
       ELSE base_request_id

\* ------------------------------------------------- idempotency repository
IdempotencyFields ==
    {"PK", "SK", "response_data", "target_task_pk", "target_task_sk",
     "http_status_code", "expiration_timestamp", "created_at"}

\* IdempotencyCreate(...): pydantic validation of the record.
IdempotencyCreateValid(rec) ==
    /\ StrLen(rec.request_id) >= 1
    /\ StrLen(rec.request_id) <= MaxRequestIdLen
    /\ rec.http_status_code >= MinStatusCode
    /\ rec.http_status_code <= MaxStatusCode

\* The item create_idempotency writes for a record at time t.
IdempotencyItem(rec, t) ==
    [PK |-> IdemPK(rec.request_id),
     SK |-> Metadata,
     response_data |-> rec.response_data,
     target_task_pk |-> rec.target_task_pk,
     target_task_sk |-> rec.target_task_sk,
     http_status_code |-> rec.http_status_code,
     expiration_timestamp |-> rec.expiration_timestamp,
     created_at |-> t]

\* IdempotencyRepository.create_idempotency: put_item, no condition.
create_idempotency(t, rec, time) == PutItem(t, IdempotencyItem(rec, time))

\* IdempotencyRepository._item_to_idempotency_response; a missing attribute
\* is a KeyError.
item_to_idempotency_response(item) ==
    IF IdempotencyFields \subseteq DOMAIN item
    THEN [kind |-> "record",
          request_id |-> Split(item.PK, "#")[2],
          response_data |-> item.response_data,
          target_task_pk |-> item.target_task_pk,
          target_task_sk |-> item.target_task_sk,
          http_status_code |-> item.http_status_code,
          expiration_timestamp |-> item.expiration_timestamp,
          created_at |-> item.created_at]
    ELSE [kind |-> "raise"]

\* IdempotencyRepository.get_idempotency; fault is a ClientError from
\* get_item (throttling, network), which the repository re-raises.
get_idempotency(t, request_id, fault) ==
    IF fault THEN [kind |-> "raise"]
    ELSE IF ~HasItem(t, <<IdemPK(request_id), Metadata>>) THEN None
    ELSE item_to_idempotency_response(t[<<IdemPK(request_id), Metadata>>])

\* A delete that leaves the table as it is.
delete_idempotency_Noop(t, request_id) == t

\* IdempotencyRepository.delete_idempotency
delete_idempotency(t, request_id) ==
    DeleteItem(t, <<IdemPK(request_id), Metadata>>)

\* ---------------------------------------------------- idempotency service
\* check_and_return_existing without its except clause: a lookup error
\* reaches the handler.
check_and_return_existing_Propagating(t, request_id, current_timestamp, fault) ==
    LET existing == get_idempotency(t, request_id, fault)
    IN IF existing.kind = "raise" THEN existing
       ELSE IF existing.kind = "none" THEN None
       ELSE IF existing.expiration_timestamp < current_timestamp THEN None
       ELSE existing

\* IdempotencyService.check_and_return_existing: the stored response, or
\* None when there is none, it has expired, or the lookup raised.
check_and_return_existing(t, request_id, current_timestamp, fault) ==
    LET existing == get_idempotency(t, request_id, fault)
    IN IF existing.kind = "raise" THEN None
       ELSE IF existing.kind = "none" THEN None
       ELSE IF existing.expiration_timestamp < current_timestamp THEN None
       ELSE existing

\* The IdempotencyCreate that store_response_async builds at time t.
IdempotencyRecord(request_id, user_id, task_id, response_data, status_code, t) ==
    [request_id |-> request_id,
     response_data |-> JsonDumps(response_data),
     target_task_pk |-> <<"TASK", "#">> \o user_id,
     target_task_sk |-> <<"TASK", "#">> \o task_id,
     http_status_code |-> status_code,
     expiration_timestamp |-> t + RETENTION]

\* ---------------------------------------------------------- user service
\* The created_at and updated_at attributes of user and task items are left
\* out: no operation reads them back into a decision.
UserItem(user_id, email, name) ==
    [PK |-> UserPK(user_id), SK |-> Metadata, email |-> email, name |-> name]

\* UserRepository._item_to_user_response
UserResponse(item) ==
    [kind |-> "user", id |-> Split(item.PK, "#")[2], email |-> item.email,
     name |-> item.name]

Result(ok, code, body, t, target) ==
    [ok |-> ok, code |-> code, body |-> body, table |-> t, target |-> target]

ErrorBody(detail) == [kind |-> "error", detail |-> detail]
EmptyBody == [kind |-> "empty"]

\* UserService.create_or_get_user: get_user, then create_user (put_item)
\* when there is no item.  Returns the table.
create_or_get_user(t, user_id, email, name) ==
    IF HasItem(t, <<UserPK(user_id), Metadata>>) THEN t
    ELSE PutItem(t, UserItem(user_id, email, name))

\* UserService.create_user behind POST /users (201): ValueError when the
\* user exists, which the controller turns into 400.
create_user(t, user_id, email, name) ==
    IF HasItem(t, <<UserPK(user_id), Metadata>>)
    THEN Result(FALSE, 400, ErrorBody("already exists"), t, user_id)
    ELSE Result(TRUE, 201, UserResponse(UserItem(user_id, email, name)),
                PutItem(t, UserItem(user_id, email, name)), user_id)

\* UserService.update_user behind PUT /users (200): update_item with
\* attribute_exists(PK); the ClientError of a failed condition is not a
\* ValueError and surfaces as 500.
update_user(t, user_id, name) ==
    LET k == <<UserPK(user_id), Metadata>>
    IN IF ~HasItem(t, k)
       THEN Result(FALSE, 500, ErrorBody("ClientError"), t, user_id)
       ELSE LET item == [t[k] EXCEPT !.name = name]
            IN Result(TRUE, 200, UserResponse(item), PutItem(t, item), user_id)

\* UserService.delete_user behind DELETE /users (204): unconditional
\* delete_item; the handler returns None.
delete_user(t, user_id) ==
    Result(TRUE, 204, EmptyBody, DeleteItem(t, <<UserPK(user_id), Metadata>>),
           user_id)

\* ---------------------------------------------------------- task service
TaskItem(user_id, task_id, status) ==
    [PK |-> TaskPK(user_id), SK |-> TaskSK(task_id), title |-> "title",
     status |-> status]

\* TaskRepository._item_to_task_response
TaskResponse(item) ==
    [kind |-> "task", id |-> Split(item.SK, "#")[2], title |-> item.title,
     status |-> item.status]

\* TaskService.create_task behind POST /tasks: TaskRepository.create_task
\* reads task.status while building the item; a TaskCreate has no status
\* field (has_status is FALSE for every parsed request body), so the call
\* raises AttributeError before put_item, and the handler answers 500.
create_task(t, user_id, task_id, has_status, status) ==
    IF ~has_status
    THEN Result(FALSE, 500, ErrorBody("AttributeError"), t, task_id)
    ELSE Result(TRUE, 201, TaskResponse(TaskItem(user_id, task_id, status)),
                PutItem(t, TaskItem(user_id, task_id, status)), task_id)

\* TaskService.update_task behind PUT /tasks/{task_id} (200).  status is
\* "none" when the update carries no status.  get_task raises ValueError
\* for a missing task; so does the failed attribute_exists condition.
update_task(t, user_id, task_id, status) ==
    LET k == <<TaskPK(user_id), TaskSK(task_id)>>
    IN IF ~HasItem(t, k)
       THEN Result(FALSE, 400, ErrorBody("not found"), t, task_id)
       ELSE IF status # "none" /\ t[k].status = "completed" /\ status # "completed"
       THEN Result(FALSE, 400, ErrorBody("completed"), t, task_id)
       ELSE LET item == [t[k] EXCEPT
                            !.status = IF status = "none" THEN @ ELSE status]
            IN Result(TRUE, 200, TaskResponse(item), PutItem(t, item), task_id)

\* TaskService.delete_task behind DELETE /tasks/{task_id} (204):
\* delete_item with attribute_exists(PK); the ClientError surfaces as 500.
delete_task(t, user_id, task_id) ==
    LET k == <<TaskPK(user_id), TaskSK(task_id)>>
    IN IF ~HasItem(t, k)
       THEN Result(FALSE, 500, ErrorBody("ClientError"), t, task_id)
       ELSE Result(TRUE, 204, EmptyBody, DeleteItem(t, k), task_id)

\* ------------------------------------------------------------ controllers
\* One execution environment serves one invocation at a time (lambda_handler
\* runs the request to completion, and no handler yields between its blocking
\* boto3 calls); what outlives a handler is its detached store task.
Slots == {1}
Idle == [pc |-> "idle"]
Response(code, body) == [kind |-> "response", code |-> code, body |-> body]

ClaimsEmail == "e"
ClaimsName == "n1"

\* What each endpoint reads from the request besides the headers.
Args(ep) ==
    CASE ep = "create_user" -> {"n1"}
      [] ep = "update_user" -> {"n2"}
      [] ep = "update_task" -> UpdateStatusInputs
      [] OTHER -> {"none"}

\* The user endpoints declare idempotency_key: str = Header(...) and hand it
\* to get_request_id; the task endpoints call get_request_id(request, user_id).
IdempotencyKeyArg(ep, hdr) == IF ep \in UserEndpoints THEN hdr.idem ELSE Absent

\* Every endpoint but POST /users calls create_or_get_user first.
EnsuresUser(ep) == ep # "create_user"

\* POST /users and PUT /users return the cached response when the check
\* finds one; DELETE /users passes, and the task endpoints drop the result.
ReplaysOnHit(ep) == ep \in {"create_user", "update_user"}

\* The response_data and status_code each endpoint gives store_idempotency.
ResponseData(ep) ==
    CASE ep \in {"create_user", "create_task"} -> StatusDict("created")
      [] ep \in {"update_user", "update_task"} -> StatusDict("updated")
      [] OTHER -> StatusDict("deleted")

StoredStatus(ep) ==
    CASE ep \in {"create_user", "create_task"} -> 201
      [] ep \in {"update_user", "update_task"} -> 200
      [] OTHER -> 204

\* The business operation of an endpoint, applied to the table.
BusinessOperation(r, t) ==
    CASE r.ep = "create_user" -> create_user(t, r.user_id, ClaimsEmail, r.arg)
      [] r.ep = "update_user" -> update_user(t, r.user_id, r.arg)
      [] r.ep = "delete_user" -> delete_user(t, r.user_id)
      [] r.ep = "create_task" -> create_task(t, r.user_id, r.task_id, FALSE, "pending")
      [] r.ep = "update_task" -> update_task(t, r.user_id, r.task_id, r.arg)
      [] OTHER -> delete_task(t, r.user_id, r.task_id)

\* The admission checks without the identity check of get_user_context.
Admission_Open(ep, sub, hdr) ==
    IF ep \in UserEndpoints /\ hdr.idem = Absent
    THEN Response(422, ErrorBody("Validation error"))
    ELSE IF ep \in UserEndpoints /\ hdr.idem = Empty
    THEN Response(400, ErrorBody("Idempotency-Key header is required"))
    ELSE [kind |-> "ok"]

\* The checks a request passes before the handler body runs; "ok" or the
\* rejection.  A missing required header is FastAPI's 422, an empty one the
\* handler's 400, a missing sub claim get_user_context's 401.
Admission(ep, sub, hdr) ==
    IF ep \in UserEndpoints /\ hdr.idem = Absent
    THEN Response(422, ErrorBody("Validation error"))
    ELSE IF ep \in UserEndpoints /\ hdr.idem = Empty
    THEN Response(400, ErrorBody("Idempotency-Key header is required"))
    ELSE IF ~Truthy(sub)
    THEN Response(401, ErrorBody("Unauthorized"))
    ELSE [kind |-> "ok"]

\* store_idempotency building the record in the handler: a validation error
\* is raised to it.
store_idempotency_Validating(request_id, user_id, task_id, response_data, status_code) ==
    IF IdempotencyCreateValid(IdempotencyRecord(request_id, user_id, task_id,
                                                response_data, status_code, 0))
    THEN [kind |-> "scheduled",
          task |-> [request_id |-> request_id, user_id |-> user_id,
                    task_id |-> task_id, response_data |-> response_data,
                    status_code |-> status_code]]
    ELSE [kind |-> "raise"]

\* dependecies.store_idempotency inside a handler: the event loop is
\* running, so asyncio.create_task succeeds and nothing is awaited.
store_idempotency(request_id, user_id, task_id, response_data, status_code) ==
    [kind |-> "scheduled",
     task |-> [request_id |-> request_id, user_id |-> user_id,
               task_id |-> task_id, response_data |-> response_data,
               status_code |-> status_code]]

FreeSlot == CHOOSE i \in Slots : reqs[i] = Idle /\ \A j \in Slots : reqs[j] = Idle => i <= j

\* A handler that stores only what failed.
StoresAfter_Failed(res) == ~res.ok

\* A handler that stores whatever the business operation did.
StoresAfter_Always(res) == TRUE

\* The handler reaches store_idempotency only when the business operation
\* returned: the call follows it, inside the try block where there is one.
StoresAfter(res) == res.ok

\* A request arrives and its handler runs up to the idempotency lookup.
Start(ep, sub, hdr, arg, task_id) ==
    /\ started < MaxReq
    /\ \E i \in Slots : reqs[i] = Idle
    /\ started' = started + 1
    /\ LET adm == Admission(ep, sub, hdr)
           key == get_request_id(hdr, sub, IdempotencyKeyArg(ep, hdr),
                                 <<UuidAtoms[started + 1]>>)
           base == [pc |-> "check", ep |-> ep, user_id |-> sub, hdr |-> hdr,
                    arg |-> arg, task_id |-> task_id, key |-> key,
                    cached |-> None, fault |-> FALSE,
                    sawExp |-> -1, checkedAt |-> -1, sawOrig |-> None,
                    afterFailure |-> key \in DOMAIN chain /\ chain[key].failed,
                    ensured |-> /\ adm.kind = "ok"
                                /\ EnsuresUser(ep)
                                /\ ~HasItem(table, <<UserPK(sub), Metadata>>),
                    invoked |-> FALSE, opres |-> None, resp |-> None]
       IN IF adm.kind = "ok"
          THEN /\ reqs' = [reqs EXCEPT ![FreeSlot] = base]
               /\ table' = IF EnsuresUser(ep)
                           THEN create_or_get_user(table, sub, ClaimsEmail, ClaimsName)
                           ELSE table
          ELSE /\ reqs' = [reqs EXCEPT ![FreeSlot] =
                               [base EXCEPT !.pc = "done", !.resp = adm]]
               /\ table' = table
    /\ UNCHANGED <<probe, now, ticks, storeTasks, putTasks, origin, chain, log>>

\* The expiration_timestamp of the well-formed record the table physically
\* holds for the key, or -1 when it holds none.
StoredExpiration(t, request_id) ==
    IF /\ HasItem(t, <<IdemPK(request_id), Metadata>>)
       /\ IdempotencyFields \subseteq DOMAIN t[<<IdemPK(request_id), Metadata>>]
    THEN t[<<IdemPK(request_id), Metadata>>].expiration_timestamp
    ELSE -1

\* A store task or a put for the key is scheduled and has not run.
Pending(request_id) ==
    \/ \E t \in storeTasks : t.call.request_id = request_id
    \/ \E p \in putTasks : p.rec.request_id = request_id

\* A lookup that waits until every scheduled write of its key has run.
Check_AwaitingPut(i, fault) ==
    /\ reqs[i].pc = "check"
    /\ ~Pending(reqs[i].key)
    /\ LET r == reqs[i]
           cached == check_and_return_existing(table, r.key, now, fault)
           seen == [r EXCEPT !.cached = cached, !.fault = fault,
                             !.sawExp = StoredExpiration(table, r.key),
                             !.checkedAt = now,
                             !.sawOrig = IF r.key \in DOMAIN origin
                                         THEN origin[r.key] ELSE None]
       IN reqs' = [reqs EXCEPT ![i] =
              IF cached # None /\ ReplaysOnHit(r.ep)
              THEN [seen EXCEPT !.pc = "done",
                                !.resp = Response(cached.http_status_code,
                                                  JsonLoads(cached.response_data))]
              ELSE [seen EXCEPT !.pc = "exec"]]
    /\ UNCHANGED <<probe, table, now, ticks, started, storeTasks, putTasks,
                   origin, chain, log>>

\* await check_idempotency(request_id) and what the handler does with it.
Check(i, fault) ==
    /\ reqs[i].pc = "check"
    /\ LET r == reqs[i]
           cached == check_and_return_existing(table, r.key, now, fault)
           seen == [r EXCEPT !.cached = cached, !.fault = fault,
                             !.sawExp = StoredExpiration(table, r.key),
                             !.checkedAt = now,
                             !.sawOrig = IF r.key \in DOMAIN origin
                                         THEN origin[r.key] ELSE None]
       IN reqs' = [reqs EXCEPT ![i] =
              IF cached.kind = "raise"
              THEN [seen EXCEPT !.pc = "done", !.cached = None,
                                !.resp = Response(500, ErrorBody("store"))]
              ELSE IF cached # None /\ ReplaysOnHit(r.ep)
              THEN [seen EXCEPT !.pc = "done",
                                !.resp = Response(cached.http_status_code,
                                                  JsonLoads(cached.response_data))]
              ELSE [seen EXCEPT !.pc = "exec"]]
    /\ UNCHANGED <<probe, table, now, ticks, started, storeTasks, putTasks,
                   origin, chain, log>>

\* The check found the record inside its retention window.
SawLive(r) == ~r.fault /\ r.sawExp > r.checkedAt

\* The request repeats the one whose record its check found: same key, same
\* endpoint, same arguments, inside the record's retention window.
RetryOfStored(r) ==
    /\ SawLive(r)
    /\ r.sawOrig # None
    /\ r.sawOrig.ep = r.ep
    /\ r.sawOrig.arg = r.arg

\* The business operation, store_idempotency on success, and the return.
Execute(i) ==
    /\ reqs[i].pc = "exec"
    /\ LET r == reqs[i]
           res == BusinessOperation(r, table)
           out == Response(res.code, res.body)
           sch == store_idempotency(r.key, r.user_id, res.target,
                                    ResponseData(r.ep), StoredStatus(r.ep))
       IN /\ table' = res.table
          /\ reqs' = [reqs EXCEPT ![i] =
                 [r EXCEPT !.pc = "done", !.invoked = TRUE, !.opres = out,
                           !.resp = IF StoresAfter(res) /\ sch.kind = "raise"
                                    THEN Response(500, ErrorBody("store"))
                                    ELSE out]]
          /\ storeTasks' = IF StoresAfter(res) /\ sch.kind = "scheduled"
                           THEN storeTasks \cup
                                {[call |-> sch.task,
                                  orig |-> [resp |-> out, ep |-> r.ep, arg |-> r.arg]]}
                           ELSE storeTasks
          /\ chain' = Upd(chain, r.key,
                          [n |-> IF ~res.ok
                                 THEN IF r.key \in DOMAIN chain THEN chain[r.key].n ELSE 0
                                 ELSE IF RetryOfStored(r) /\ r.key \in DOMAIN chain
                                 THEN chain[r.key].n + 1 ELSE 1,
                           failed |-> ~res.ok])
    /\ UNCHANGED <<probe, now, ticks, started, putTasks, origin, log>>

\* The response has been delivered; the slot is free again.
Finish(i) ==
    /\ reqs[i].pc = "done"
    /\ reqs' = [reqs EXCEPT ![i] = Idle]
    /\ UNCHANGED <<probe, table, now, ticks, started, storeTasks, putTasks,
                   origin, chain, log>>

\* ---------------------------------------------------------- detached work
\* The body of store_response_async: build the IdempotencyCreate and hand
\* create_idempotency to a second task; a validation error is logged.
store_response_async(call, time) ==
    LET rec == IdempotencyRecord(call.request_id, call.user_id, call.task_id,
                                 call.response_data, call.status_code, time)
    IN IF IdempotencyCreateValid(rec) THEN [kind |-> "queued", rec |-> rec]
       ELSE [kind |-> "logged"]

RunStoreTask(task) ==
    /\ task \in storeTasks
    /\ storeTasks' = storeTasks \ {task}
    /\ LET q == store_response_async(task.call, now)
       IN /\ putTasks' = IF q.kind = "queued"
                         THEN putTasks \cup {[rec |-> q.rec, orig |-> task.orig]}
                         ELSE putTasks
          /\ log' = IF q.kind = "queued" THEN log
                    ELSE log \cup {"Failed to queue idempotency record"}
    /\ UNCHANGED <<probe, table, now, ticks, reqs, started, origin, chain>>

\* The detached create_idempotency runs; fault is a ClientError from
\* put_item, which the repository logs and nobody retrieves.
RunPut(p, fault) ==
    /\ p \in putTasks
    /\ putTasks' = putTasks \ {p}
    /\ IF fault
       THEN /\ log' = log \cup {"Error creating idempotency record"}
            /\ UNCHANGED <<table, origin>>
       ELSE /\ table' = create_idempotency(table, p.rec, now)
            /\ origin' = Upd(origin, p.rec.request_id, p.orig)
            /\ log' = log
    /\ UNCHANGED <<probe, now, ticks, reqs, started, storeTasks, chain>>

\* The execution environment is frozen or torn down with detached tasks
\* still pending; they never run.
LoseDetached ==
    /\ storeTasks \cup putTasks # {}
    /\ storeTasks' = {}
    /\ putTasks' = {}
    /\ UNCHANGED <<probe, table, now, ticks, reqs, started, origin, chain, log>>

\* ------------------------------------------------------------------ clock
\* The clock is observed in steps of one retention window.
TickSteps == {RETENTION}

Tick(d) ==
    /\ ticks < MaxTicks
    /\ ticks' = ticks + 1
    /\ now' = now + d
    /\ UNCHANGED <<probe, table, reqs, started, storeTasks, putTasks, origin,
                   chain, log>>

\* ---------------------------------------------------------- specification
\* The table outlives the process: it starts with one task of user u, and
\* no users and no idempotency records.
SeedTable ==
    PutItem(<<>>, TaskItem(<<"u">>, <<"t1">>, "pending"))

Headers == [idem : IdemHeaderValues, xreq : XRequestIdValues, amzn : AmznRequestIdValues]

\* The clients served under Spec: two callers whose clients send the same
\* token as Idempotency-Key and X-Request-ID, and a client of the first
\* caller whose token is longer than a request_id may be.
Clients ==
    {[sub |-> <<"u">>, hdr |-> [idem |-> <<"k">>, xreq |-> <<"k">>, amzn |-> Absent]],
     [sub |-> <<"v">>, hdr |-> [idem |-> <<"k">>, xreq |-> <<"k">>, amzn |-> Absent]],
     [sub |-> <<"u">>, hdr |-> [idem |-> <<"LONG">>, xreq |-> <<"LONG">>, amzn |-> Absent]]}

Init ==
    /\ table = SeedTable
    /\ now = 0
    /\ ticks = 0
    /\ reqs = [i \in Slots |-> Idle]
    /\ started = 0
    /\ storeTasks = {}
    /\ putTasks = {}
    /\ origin = <<>>
    /\ chain = <<>>
    /\ log = {}
    /\ probe = None

Next ==
    \/ \E ep \in Endpoints, c \in Clients, task_id \in TaskIds :
          \E arg \in Args(ep) : Start(ep, c.sub, c.hdr, arg, task_id)
    \/ \E i \in Slots, fault \in BOOLEAN : Check(i, fault)
    \/ \E i \in Slots : Execute(i)
    \/ \E i \in Slots : Finish(i)
    \/ \E task \in storeTasks : RunStoreTask(task)
    \/ \E p \in putTasks, fault \in BOOLEAN : RunPut(p, fault)
    \/ LoseDetached
    \/ \E d \in TickSteps : Tick(d)

Spec == Init /\ [][Next]_vars

\* The event loop runs every task that stays ready: a scheduled
\* store_response_async and a scheduled create_idempotency are each run
\* unless the environment drops them first.
SpecLive ==
    /\ Init
    /\ [][Next]_vars
    /\ WF_vars(\E task \in storeTasks : RunStoreTask(task))
    /\ WF_vars(\E p \in putTasks, fault \in BOOLEAN : RunPut(p, fault))

\* ------------------------------------------- deriving a request identifier
\* One request with any combination of caller and headers; Derive runs the
\* admission checks of its endpoint and the get_request_id call it makes.
ProbeUuid == <<UuidAtoms[1]>>

InitKey ==
    /\ table = SeedTable
    /\ now = 0
    /\ ticks = 0
    /\ reqs = [i \in Slots |-> Idle]
    /\ started = 0
    /\ storeTasks = {}
    /\ putTasks = {}
    /\ origin = <<>>
    /\ chain = <<>>
    /\ log = {}
    /\ probe \in [stage : {"request"}, ep : Endpoints,
                  sub : UserIds \cup {Absent}, hdr : Headers,
                  key : {Absent}]

Derive ==
    /\ probe.stage = "request"
    /\ probe' =
          IF Admission(probe.ep, probe.sub, probe.hdr).kind = "ok"
          THEN [probe EXCEPT
                   !.stage = "keyed",
                   !.key = get_request_id(probe.hdr, probe.sub,
                               IdempotencyKeyArg(probe.ep, probe.hdr), ProbeUuid)]
          ELSE [probe EXCEPT !.stage = "rejected"]
    /\ UNCHANGED <<table, now, ticks, reqs, started, storeTasks, putTasks,
                   origin, chain, log>>

NextKey == Derive

SpecKey == InitKey /\ [][NextKey]_vars

\* --------------------------------------------- formatting an identifier
\* get_request_id and generate_request_id applied to any caller identity,
\* present, None or empty, and any headers.
IdentityValues == UserIds \cup {Absent, Empty}

InitFmt ==
    /\ table = SeedTable
    /\ now = 0
    /\ ticks = 0
    /\ reqs = [i \in Slots |-> Idle]
    /\ started = 0
    /\ storeTasks = {}
    /\ putTasks = {}
    /\ origin = <<>>
    /\ chain = <<>>
    /\ log = {}
    /\ probe \in [stage : {"ids"}, user_id : IdentityValues, hdr : Headers,
                  key : {Absent}, gen : {Absent}]

FormatIds ==
    /\ probe.stage = "ids"
    /\ probe' = [probe EXCEPT
                    !.stage = "formatted",
                    !.key = get_request_id(probe.hdr, probe.user_id,
                                           probe.hdr.idem, ProbeUuid),
                    !.gen = generate_request_id(probe.user_id, probe.hdr.idem,
                                                ProbeUuid)]
    /\ UNCHANGED <<table, now, ticks, reqs, started, storeTasks, putTasks,
                   origin, chain, log>>

NextFmt == FormatIds

SpecFmt == InitFmt /\ [][NextFmt]_vars

\* ------------------------------------------------ the repository alone
\* create_idempotency, get_idempotency and delete_idempotency called
\* directly, in any order, on valid records.  A request id is any string of
\* 1 to 255 characters: a bare token, a user-scoped token, and a user-scoped
\* token that contains "#".
RepoIds ==
    {<<"k">>, <<"u", ":", "k">>, <<"u", ":", "a", "#", "b">>}

RepoRecords ==
    {IdempotencyRecord(id, <<"u">>, <<"t1">>, StatusDict(o[1]), o[2], 0) :
        id \in RepoIds, o \in {<<"created", 201>>, <<"deleted", 204>>}}

\* probe holds the last call, what it returned, the table before it, and
\* the record last created and not since deleted under each request id.
InitRepo ==
    /\ table = SeedTable
    /\ now = 0
    /\ ticks = 0
    /\ reqs = [i \in Slots |-> Idle]
    /\ started = 0
    /\ storeTasks = {}
    /\ putTasks = {}
    /\ origin = <<>>
    /\ chain = <<>>
    /\ log = {}
    /\ probe = [op |-> "none", request_id |-> Absent, result |-> None,
                before |-> SeedTable, written |-> <<>>]

RepoCreate(rec) ==
    /\ IdempotencyCreateValid(rec)
    /\ table' = create_idempotency(table, rec, now)
    /\ probe' = [op |-> "create", request_id |-> rec.request_id,
                 result |-> rec, before |-> table,
                 written |-> Upd(probe.written, rec.request_id, rec)]
    /\ UNCHANGED <<now, ticks, reqs, started, storeTasks, putTasks, origin,
                   chain, log>>

RepoGet(request_id) ==
    /\ probe' = [probe EXCEPT
                    !.op = "get", !.request_id = request_id,
                    !.result = get_idempotency(table, request_id, FALSE),
                    !.before = table]
    /\ UNCHANGED <<table, now, ticks, reqs, started, storeTasks, putTasks,
                   origin, chain, log>>

RepoDelete(request_id) ==
    /\ table' = delete_idempotency(table, request_id)
    /\ probe' = [op |-> "delete", request_id |-> request_id,
                 result |-> None, before |-> table,
                 written |-> [x \in DOMAIN probe.written \ {request_id} |->
                                 probe.written[x]]]
    /\ UNCHANGED <<now, ticks, reqs, started, storeTasks, putTasks, origin,
                   chain, log>>

NextRepo ==
    \/ \E rec \in RepoRecords : RepoCreate(rec)
    \/ \E request_id \in RepoIds : RepoGet(request_id)
    \/ \E request_id \in RepoIds : RepoDelete(request_id)

SpecRepo == InitRepo /\ [][NextRepo]_vars

\* ------------------------------------------- concurrent update_task calls
\* TaskRepository.get_task: the task, or ValueError when there is none.
task_repo_get_task(t, user_id, task_id) ==
    IF HasItem(t, <<TaskPK(user_id), TaskSK(task_id)>>)
    THEN TaskResponse(t[<<TaskPK(user_id), TaskSK(task_id)>>])
    ELSE [kind |-> "raise"]

\* An update_item without the condition: it creates the item it does not
\* find.
task_repo_update_task_Upsert(t, user_id, task_id, status) ==
    LET k == <<TaskPK(user_id), TaskSK(task_id)>>
        item == IF HasItem(t, k) THEN t[k]
                ELSE TaskItem(user_id, task_id, "pending")
    IN [kind |-> "ok",
        table |-> PutItem(t, [item EXCEPT
                     !.status = IF status = "none" THEN @ ELSE status])]

\* TaskRepository.update_task: update_item under attribute_exists(PK); the
\* condition is the only one, whatever the stored status is.
task_repo_update_task(t, user_id, task_id, status) ==
    LET k == <<TaskPK(user_id), TaskSK(task_id)>>
    IN IF ~HasItem(t, k) THEN [kind |-> "raise", table |-> t]
       ELSE [kind |-> "ok",
             table |-> PutItem(t, [t[k] EXCEPT
                          !.status = IF status = "none" THEN @ ELSE status])]

\* Two execution environments serve PUT /tasks/t1 of user u at once.  Each
\* runs TaskService.update_task: get_task and the transition rule first,
\* when the update carries a status, and then the repository update, which
\* is a separate call to the table.
Workers == {1, 2}
WorkerIdle(outcome) == [pc |-> "idle", status |-> "none", outcome |-> outcome]

InitTask ==
    /\ table = SeedTable
    /\ now = 0
    /\ ticks = 0
    /\ reqs = [i \in Slots |-> Idle]
    /\ started = 0
    /\ storeTasks = {}
    /\ putTasks = {}
    /\ origin = <<>>
    /\ chain = <<>>
    /\ log = {}
    /\ probe = [w \in Workers |-> WorkerIdle("none")]

UpdateCall(w, status) ==
    /\ probe[w].pc = "idle"
    /\ probe' = [probe EXCEPT ![w] =
                    [pc |-> "validate", status |-> status, outcome |-> "none"]]
    /\ UNCHANGED <<table, now, ticks, reqs, started, storeTasks, putTasks,
                   origin, chain, log>>

UpdateValidate(w) ==
    /\ probe[w].pc = "validate"
    /\ LET current_task == task_repo_get_task(table, <<"u">>, <<"t1">>)
       IN probe' = [probe EXCEPT ![w] =
             IF probe[w].status = "none" THEN [@ EXCEPT !.pc = "write"]
             ELSE IF current_task.kind = "raise" THEN WorkerIdle("ValueError")
             ELSE IF /\ current_task.status = "completed"
                     /\ probe[w].status # "completed"
             THEN WorkerIdle("ValueError")
             ELSE [@ EXCEPT !.pc = "write"]]
    /\ UNCHANGED <<table, now, ticks, reqs, started, storeTasks, putTasks,
                   origin, chain, log>>

UpdateWrite(w) ==
    /\ probe[w].pc = "write"
    /\ LET res == task_repo_update_task(table, <<"u">>, <<"t1">>, probe[w].status)
       IN /\ table' = res.table
          /\ probe' = [probe EXCEPT ![w] =
                          WorkerIdle(IF res.kind = "ok" THEN "updated"
                                     ELSE "ValueError")]
    /\ UNCHANGED <<now, ticks, reqs, started, storeTasks, putTasks, origin,
                   chain, log>>

NextTask ==
    \/ \E w \in Workers, status \in TaskStatus \cup {"none"} :
          UpdateCall(w, status)
    \/ \E w \in Workers : UpdateValidate(w)
    \/ \E w \in Workers : UpdateWrite(w)

SpecTask == InitTask /\ [][NextTask]_vars

\* ------------------------------------------------ the task repository alone
\* str() of a non-negative integer, digit by digit.
DigitAtoms == <<"0", "1", "2", "3", "4", "5", "6", "7", "8", "9">>

RECURSIVE Decimal(_)
Decimal(n) ==
    IF n < 10 THEN <<DigitAtoms[n + 1]>>
    ELSE Decimal(n \div 10) \o <<DigitAtoms[(n % 10) + 1]>>

\* task_id = f"task-{datetime.now(timezone.utc).timestamp()}": the clock
\* reading as a float, here a whole number of seconds.
TaskIdAt(time) == <<"task-">> \o Decimal(time) \o <<".", "0">>

\* TaskRepository.create_task.  The item is built from task.status.value
\* among others: a TaskCreate, which is what the service passes, has no
\* status attribute and the call raises AttributeError before put_item; for
\* a task object that carries a status the item is written with put_item,
\* unconditionally, under the id derived from the clock.
task_repo_create_task(t, user_id, has_status, status, time) ==
    IF ~has_status THEN [kind |-> "raise", table |-> t]
    ELSE LET item == TaskItem(user_id, TaskIdAt(time), status)
         IN [kind |-> "ok", table |-> PutItem(t, item),
             response |-> TaskResponse(item)]

\* TaskRepository.get_tasks: the items of the partition TASK#<user_id>, as
\* responses, by sort key.
task_repo_get_tasks(t, user_id) ==
    [sk \in {k[2] : k \in {x \in DOMAIN t : x[1] = TaskPK(user_id)}} |->
        TaskResponse(t[<<TaskPK(user_id), sk>>])]

\* TaskRepository.delete_task: delete_item under attribute_exists(PK); the
\* failed condition is re-raised as a ClientError.
task_repo_delete_task(t, user_id, task_id) ==
    LET k == <<TaskPK(user_id), TaskSK(task_id)>>
    IN IF ~HasItem(t, k) THEN [kind |-> "raise", table |-> t]
       ELSE [kind |-> "ok", table |-> DeleteItem(t, k)]

\* The task ids callers name: the stored task's and those a create derives
\* from the clock readings.
CallTaskIds == {<<"t1">>, TaskIdAt(0), TaskIdAt(RETENTION)}

\* probe holds the last call and what it returned, and the history the
\* repository does not keep: who created each stored task, how many creates
\* of each user succeeded, and whether a delete of the user has succeeded.
InitTasks ==
    /\ table = SeedTable
    /\ now = 0
    /\ ticks = 0
    /\ reqs = [i \in Slots |-> Idle]
    /\ started = 0
    /\ storeTasks = {}
    /\ putTasks = {}
    /\ origin = <<>>
    /\ chain = <<>>
    /\ log = {}
    /\ probe = [op |-> "none", user_id |-> Absent, task_id |-> Absent,
                result |-> None,
                owner |-> [k \in DOMAIN SeedTable |-> <<"u">>],
                creates |-> [u \in UserIds |-> 0],
                deleted |-> [u \in UserIds |-> FALSE]]

TasksCreate(user_id, has_status) ==
    /\ probe.creates[user_id] < MaxCreates
    /\ LET res == task_repo_create_task(table, user_id, has_status, "pending", now)
           k == <<TaskPK(user_id), TaskSK(TaskIdAt(now))>>
       IN /\ table' = res.table
          /\ probe' = [probe EXCEPT
                !.op = "create", !.user_id = user_id,
                !.task_id = TaskIdAt(now),
                !.result = IF res.kind = "ok" THEN res.response
                           ELSE [kind |-> "raise", error |-> "AttributeError"],
                !.owner = IF res.kind = "ok" THEN Upd(@, k, user_id) ELSE @,
                !.creates[user_id] = IF res.kind = "ok" THEN @ + 1 ELSE @]
    /\ UNCHANGED <<now, ticks, reqs, started, storeTasks, putTasks, origin,
                   chain, log>>

TasksGet(user_id, task_id) ==
    /\ probe' = [probe EXCEPT
                    !.op = "get", !.user_id = user_id, !.task_id = task_id,
                    !.result = task_repo_get_task(table, user_id, task_id)]
    /\ UNCHANGED <<table, now, ticks, reqs, started, storeTasks, putTasks,
                   origin, chain, log>>

TasksList(user_id) ==
    /\ probe' = [probe EXCEPT
                    !.op = "list", !.user_id = user_id, !.task_id = Absent,
                    !.result = [kind |-> "list",
                                tasks |-> task_repo_get_tasks(table, user_id)]]
    /\ UNCHANGED <<table, now, ticks, reqs, started, storeTasks, putTasks,
                   origin, chain, log>>

TasksUpdate(user_id, task_id, status) ==
    /\ LET res == task_repo_update_task(table, user_id, task_id, status)
       IN /\ table' = res.table
          /\ probe' = [probe EXCEPT
                !.op = "update", !.user_id = user_id, !.task_id = task_id,
                !.result = IF res.kind = "ok"
                           THEN task_repo_get_task(res.table, user_id, task_id)
                           ELSE [kind |-> "raise", error |-> "ValueError"]]
    /\ UNCHANGED <<now, ticks, reqs, started, storeTasks, putTasks, origin,
                   chain, log>>

TasksDelete(user_id, task_id) ==
    /\ LET res == task_repo_delete_task(table, user_id, task_id)
           k == <<TaskPK(user_id), TaskSK(task_id)>>
       IN /\ table' = res.table
          /\ probe' = [probe EXCEPT
                !.op = "delete", !.user_id = user_id, !.task_id = task_id,
                !.result = IF res.kind = "ok" THEN None
                           ELSE [kind |-> "raise", error |-> "ClientError"],
                !.owner = [x \in DOMAIN @ \cap DOMAIN res.table |-> @[x]],
                !.deleted[user_id] = @ \/ res.kind = "ok"]
    /\ UNCHANGED <<now, ticks, reqs, started, storeTasks, putTasks, origin,
                   chain, log>>

NextTasks ==
    \/ \E user_id \in UserIds, has_status \in BOOLEAN :
          TasksCreate(user_id, has_status)
    \/ \E user_id \in UserIds, task_id \in CallTaskIds : TasksGet(user_id, task_id)
    \/ \E user_id \in UserIds : TasksList(user_id)
    \/ \E user_id \in UserIds, task_id \in CallTaskIds,
          status \in {"none", "completed"} : TasksUpdate(user_id, task_id, status)
    \/ \E user_id \in UserIds, task_id \in CallTaskIds : TasksDelete(user_id, task_id)
    \/ \E d \in TickSteps : Tick(d)

SpecTasks == InitTasks /\ [][NextTasks]_vars

\* ------------------------------------- concurrent creates of a user record
\* UserRepository.get_user: the user, or None when there is no item.
user_repo_get_user(t, user_id) ==
    IF HasItem(t, <<UserPK(user_id), Metadata>>)
    THEN UserResponse(t[<<UserPK(user_id), Metadata>>])
    ELSE None

\* UserRepository.create_user: put_item, no condition.
user_repo_create_user(t, user_id, email, name) ==
    PutItem(t, UserItem(user_id, email, name))

\* Two execution environments run UserService.create_or_get_user (with the
\* name of the token's claims) and UserService.create_user (with the name of
\* the request body).  Each call is get_user first and, when it found
\* nothing, the repository create, a separate call to the table.
UserCalls ==
    {[op |-> "create_or_get_user", name |-> ClaimsName],
     [op |-> "create_user", name |-> "n1"],
     [op |-> "create_user", name |-> "n2"]}

UserWorkerIdle(outcome) ==
    [pc |-> "idle", op |-> "none", user_id |-> Absent, name |-> "none",
     outcome |-> outcome]

InitUser ==
    /\ table = SeedTable
    /\ now = 0
    /\ ticks = 0
    /\ reqs = [i \in Slots |-> Idle]
    /\ started = 0
    /\ storeTasks = {}
    /\ putTasks = {}
    /\ origin = <<>>
    /\ chain = <<>>
    /\ log = {}
    /\ probe = [w \in Workers |-> UserWorkerIdle("none")]

UserCall(w, call, user_id) ==
    /\ probe[w].pc = "idle"
    /\ probe' = [probe EXCEPT ![w] =
                    [pc |-> "lookup", op |-> call.op, user_id |-> user_id,
                     name |-> call.name, outcome |-> "none"]]
    /\ UNCHANGED <<table, now, ticks, reqs, started, storeTasks, putTasks,
                   origin, chain, log>>

UserLookup(w) ==
    /\ probe[w].pc = "lookup"
    /\ LET existing == user_repo_get_user(table, probe[w].user_id)
       IN probe' = [probe EXCEPT ![w] =
             IF existing = None THEN [@ EXCEPT !.pc = "create"]
             ELSE IF probe[w].op = "create_user" THEN UserWorkerIdle("ValueError")
             ELSE UserWorkerIdle("existing")]
    /\ UNCHANGED <<table, now, ticks, reqs, started, storeTasks, putTasks,
                   origin, chain, log>>

UserCreate(w) ==
    /\ probe[w].pc = "create"
    /\ table' = user_repo_create_user(table, probe[w].user_id, ClaimsEmail,
                                      probe[w].name)
    /\ probe' = [probe EXCEPT ![w] = UserWorkerIdle("created")]
    /\ UNCHANGED <<now, ticks, reqs, started, storeTasks, putTasks, origin,
                   chain, log>>

NextUser ==
    \/ \E w \in Workers, call \in UserCalls, user_id \in UserIds :
          UserCall(w, call, user_id)
    \/ \E w \in Workers : UserLookup(w)
    \/ \E w \in Workers : UserCreate(w)

SpecUser == InitUser /\ [][NextUser]_vars

\* ------------------------------------------ requests without an identity
\* What get_user_context finds for a request: whether Mangum attached the
\* API Gateway event, and the sub and email claims of its authorizer.
NoClaim == "<absent>"

Identities ==
    {[event |-> TRUE, sub |-> <<"u">>, email |-> ClaimsEmail],
     [event |-> FALSE, sub |-> Absent, email |-> NoClaim],
     [event |-> TRUE, sub |-> Absent, email |-> ClaimsEmail],
     [event |-> TRUE, sub |-> <<"u">>, email |-> NoClaim]}

\* dependecies.get_user_context: 401 without an event, without a sub claim
\* and without an email claim, in this order.
get_user_context(ident) ==
    IF ~ident.event
    THEN Response(401, ErrorBody("Unauthorized: No API Gateway event found"))
    ELSE IF ~Truthy(ident.sub)
    THEN Response(401, ErrorBody("Unauthorized: Missing user_id"))
    ELSE IF ident.email = NoClaim
    THEN Response(401, ErrorBody("Unauthorized: Missing email"))
    ELSE [kind |-> "ok", user_id |-> ident.sub, email |-> ident.email]

\* The user id the handler goes on with; none when get_user_context raised.
ContextUserId(ident) ==
    IF get_user_context(ident).kind = "ok"
    THEN get_user_context(ident).user_id ELSE Absent

\* The headers of the requests served here: the token in both headers, no
\* Idempotency-Key header, and an empty one.
AuthHeaders ==
    {[idem |-> <<"k">>, xreq |-> <<"k">>, amzn |-> Absent],
     [idem |-> Absent, xreq |-> <<"k">>, amzn |-> Absent],
     [idem |-> Empty, xreq |-> <<"k">>, amzn |-> Absent]}

NextAuth ==
    \/ \E ep \in Endpoints, ident \in Identities, hdr \in AuthHeaders,
          task_id \in TaskIds :
          \E arg \in Args(ep) : Start(ep, ContextUserId(ident), hdr, arg, task_id)
    \/ \E i \in Slots, fault \in BOOLEAN : Check(i, fault)
    \/ \E i \in Slots : Execute(i)
    \/ \E i \in Slots : Finish(i)
    \/ \E task \in storeTasks : RunStoreTask(task)
    \/ \E p \in putTasks, fault \in BOOLEAN : RunPut(p, fault)

SpecAuth == Init /\ [][NextAuth]_vars

\* ------------------------------------------------- the CDC stream handler
\* (src/etl/lambda_cdc/src/cdc_handler.py)  A stream record as the handler
\* reads it: its eventName; its "dynamodb" value, a dict or something that
\* is not one (None); and the NewImage and OldImage in it, each absent, a
\* well-formed image ("good"), or an image with an attribute value that is
\* no typed dict ("bad": `"S" in value` raises TypeError).
CdcRecords ==
    {[eventName |-> "INSERT", dynamodb |-> "dict", NewImage |-> "good", OldImage |-> "absent"],
     [eventName |-> "MODIFY", dynamodb |-> "dict", NewImage |-> "good", OldImage |-> "good"],
     [eventName |-> "INSERT", dynamodb |-> "dict", NewImage |-> "absent", OldImage |-> "absent"],
     [eventName |-> "INSERT", dynamodb |-> "dict", NewImage |-> "bad", OldImage |-> "absent"],
     [eventName |-> "REMOVE", dynamodb |-> "dict", NewImage |-> "absent", OldImage |-> "good"],
     [eventName |-> "OTHER", dynamodb |-> "dict", NewImage |-> "absent", OldImage |-> "absent"],
     [eventName |-> "OTHER", dynamodb |-> "dict", NewImage |-> "absent", OldImage |-> "good"],
     [eventName |-> "INSERT", dynamodb |-> "none", NewImage |-> "absent", OldImage |-> "absent"]}

RECURSIVE SeqsUpTo(_, _)
SeqsUpTo(S, n) ==
    IF n = 0 THEN {<<>>}
    ELSE LET shorter == SeqsUpTo(S, n - 1)
         IN shorter \cup {Append(s, x) : s \in shorter, x \in S}

\* _process_dynamodb_record on the record at position seq of the batch: the
\* processed record, {} ("empty"), or an exception.
process_dynamodb_record(record, seq) ==
    IF record.dynamodb = "none" THEN [kind |-> "raise"]
    ELSE IF record.eventName = "REMOVE" THEN [kind |-> "empty"]
    ELSE LET image_data == IF record.eventName \in {"INSERT", "MODIFY"}
                           THEN record.NewImage ELSE record.OldImage
         IN IF image_data = "absent" THEN [kind |-> "empty"]
            ELSE IF image_data = "bad" THEN [kind |-> "raise"]
            ELSE [kind |-> "record", event_name |-> record.eventName,
                  sequence_number |-> seq]

\* The for loop of lambda_handler from position i on.  The except clause
\* logs record.get("dynamodb", {}).get("SequenceNumber"): when "dynamodb" is
\* not a dict this raises in turn and leaves the loop and the handler.
RECURSIVE ProcessRecords(_, _, _, _)
ProcessRecords(records, i, processed, failed) ==
    IF i > Len(records)
    THEN [kind |-> "ok", processed |-> processed, failed |-> failed]
    ELSE LET r == process_dynamodb_record(records[i], i)
         IN IF r.kind = "raise"
            THEN IF records[i].dynamodb = "none" THEN [kind |-> "raise"]
                 ELSE ProcessRecords(records, i + 1, processed, failed + 1)
            ELSE IF r.kind = "record"
            THEN ProcessRecords(records, i + 1, Append(processed, r), failed)
            ELSE ProcessRecords(records, i + 1, processed, failed)

NotCalled == [kind |-> "not called"]

\* lambda_handler: the loop, _send_to_firehose when something was processed
\* (fault: put_record_batch raises, and the handler re-raises), the result.
lambda_handler(records, fault) ==
    LET loop == ProcessRecords(records, 1, <<>>, 0)
    IN IF loop.kind = "raise" THEN [kind |-> "raise", firehose |-> NotCalled]
       ELSE IF loop.processed # <<>> /\ fault
       THEN [kind |-> "raise",
             firehose |-> [kind |-> "called", records |-> loop.processed]]
       ELSE [kind |-> "return", statusCode |-> 200,
             processedRecords |-> Len(loop.processed),
             failedRecords |-> loop.failed,
             firehose |-> IF loop.processed # <<>>
                          THEN [kind |-> "called", records |-> loop.processed]
                          ELSE NotCalled]

InitCdc ==
    /\ table = SeedTable
    /\ now = 0
    /\ ticks = 0
    /\ reqs = [i \in Slots |-> Idle]
    /\ started = 0
    /\ storeTasks = {}
    /\ putTasks = {}
    /\ origin = <<>>
    /\ chain = <<>>
    /\ log = {}
    /\ probe \in [stage : {"event"}, Records : SeqsUpTo(CdcRecords, MaxBatch),
                  fault : BOOLEAN, result : {None}]

Invoke ==
    /\ probe.stage = "event"
    /\ probe' = [probe EXCEPT
                    !.stage = "handled",
                    !.result = lambda_handler(probe.Records, probe.fault)]
    /\ UNCHANGED <<table, now, ticks, reqs, started, storeTasks, putTasks,
                   origin, chain, log>>

NextCdc == Invoke

SpecCdc == InitCdc /\ [][NextCdc]_vars

\* ------------------------------------------------ two requests, two keys
\* Two requests, each with a caller identity (or none) and a client-chosen
\* token in the Idempotency-Key argument; identities and tokens may contain
\* ":".  DeriveBoth derives both keys with get_request_id and with
\* generate_request_id, stores the first request's record under its key and
\* looks the second request's key up.
PairIdentities == {Absent, <<"u">>, <<"u", ":", "a">>}
PairTokens == {<<"k">>, <<"a", ":", "k">>, <<"u", ":", "k">>, <<"j">>}
PairRequests == [user_id : PairIdentities, token : PairTokens]
NoHeaders == [idem |-> Absent, xreq |-> Absent, amzn |-> Absent]

InitPair ==
    /\ table = SeedTable
    /\ now = 0
    /\ ticks = 0
    /\ reqs = [i \in Slots |-> Idle]
    /\ started = 0
    /\ storeTasks = {}
    /\ putTasks = {}
    /\ origin = <<>>
    /\ chain = <<>>
    /\ log = {}
    /\ probe \in [stage : {"pair"}, a : PairRequests, b : PairRequests,
                  key_a : {Absent}, key_b : {Absent},
                  gen_a : {Absent}, gen_b : {Absent}, hit : {FALSE}]

DeriveBoth ==
    /\ probe.stage = "pair"
    /\ LET key_a == get_request_id(NoHeaders, probe.a.user_id, probe.a.token, ProbeUuid)
           key_b == get_request_id(NoHeaders, probe.b.user_id, probe.b.token, ProbeUuid)
           rec == IdempotencyRecord(key_a, <<"u">>, <<"t1">>,
                                    StatusDict("created"), 201, now)
           stored == create_idempotency(table, rec, now)
       IN /\ table' = stored
          /\ probe' = [probe EXCEPT
                !.stage = "derived",
                !.key_a = key_a,
                !.key_b = key_b,
                !.gen_a = generate_request_id(probe.a.user_id, probe.a.token, ProbeUuid),
                !.gen_b = generate_request_id(probe.b.user_id, probe.b.token, ProbeUuid),
                !.hit = check_and_return_existing(stored, key_b, now, FALSE) # None]
    /\ UNCHANGED <<now, ticks, reqs, started, storeTasks, putTasks, origin,
                   chain, log>>

NextPair == DeriveBoth

SpecPair == InitPair /\ [][NextPair]_vars

\* --------------------------------------------- validating a key's scope
\* ":" in request_id
Contains(s, a) == \E i \in 1..Len(s) : s[i] = a

\* IdempotencyService.validate_request_scope
validate_request_scope(request_id, expected_user_id) ==
    IF ~Truthy(expected_user_id) THEN TRUE
    ELSE IF Contains(request_id, ":")
    THEN Split(request_id, ":")[1] = expected_user_id
    ELSE FALSE

\* A key built by generate_request_id for a caller (or none) and a custom id
\* (or none: the uuid4), validated against an expected user (or none).
InitScope ==
    /\ table = SeedTable
    /\ now = 0
    /\ ticks = 0
    /\ reqs = [i \in Slots |-> Idle]
    /\ started = 0
    /\ storeTasks = {}
    /\ putTasks = {}
    /\ origin = <<>>
    /\ chain = <<>>
    /\ log = {}
    /\ probe \in [stage : {"call"},
                  expected_user_id : PairIdentities \cup {Empty},
                  user_id : PairIdentities,
                  custom_id : PairTokens \cup {Absent},
                  request_id : {Absent}, valid : {FALSE}]

ValidateScope ==
    /\ probe.stage = "call"
    /\ LET request_id == generate_request_id(probe.user_id, probe.custom_id,
                                             ProbeUuid)
       IN probe' = [probe EXCEPT
             !.stage = "validated",
             !.request_id = request_id,
             !.valid = validate_request_scope(request_id, probe.expected_user_id)]
    /\ UNCHANGED <<table, now, ticks, reqs, started, storeTasks, putTasks,
                   origin, chain, log>>

NextScope == ValidateScope

SpecScope == InitScope /\ [][NextScope]_vars

\* ================================================================= claims
Active(i) == reqs[i].pc # "idle"
Checked(i) == reqs[i].pc \in {"exec", "done"} /\ reqs[i].checkedAt >= 0
Done(i) == reqs[i].pc = "done"

\* C1: in every guarded endpoint, a request whose idempotency check found an
\* unexpired record (HIT) never invokes the business operation: it is never
\* in EXECUTING and finishes without the operation having run.
C1_HitNeverExecutes ==
    \A i \in Slots :
        Checked(i) /\ reqs[i].cached # None
            => reqs[i].pc # "exec" /\ ~reqs[i].invoked

\* C2: replay equivalence.  A request that repeats, inside the retention
\* window, an earlier successful call with the same caller and token whose
\* record has been stored, answers exactly what that call answered.
C2_ReplayEquivalence ==
    \A i \in Slots :
        Done(i) /\ Checked(i) /\ RetryOfStored(reqs[i])
            => reqs[i].resp = reqs[i].sawOrig.resp

\* C3: at-most-once-effective execution.  Among the requests with one
\* (caller, token) of which each repeats the one before and found its record
\* inside the retention window, the business operation succeeds at most once.
C3_AtMostOnce ==
    \A k \in DOMAIN chain : chain[k].n <= 1

\* C4: failure non-caching.  When the business operation raises, the error
\* is what the caller receives and nothing is scheduled or stored for it: no
\* pending store task, pending put or stored record stems from a failed
\* operation, so no record replays a failure; and a retry that follows a
\* failure and finds no record is a MISS that invokes the operation again.
IsIdempotencyItem(k) == k[1] # <<>> /\ Head(k[1]) = "IDEMPOTENCY"

C4_FailureNotCached ==
    /\ \A i \in Slots :
           Done(i) /\ reqs[i].invoked /\ reqs[i].opres.code >= 400
               => reqs[i].resp = reqs[i].opres
    /\ \A task \in storeTasks : task.orig.resp.code < 400
    /\ \A p \in putTasks : p.orig.resp.code < 400
    /\ \A k \in DOMAIN origin : origin[k].resp.code < 400
    /\ \A k \in DOMAIN table :
           IsIdempotencyItem(k) => table[k].http_status_code \in {200, 201, 204}
    /\ \A i \in Slots :
           Done(i) /\ Checked(i) /\ reqs[i].afterFailure /\ reqs[i].sawExp = -1
               => reqs[i].invoked /\ reqs[i].cached = None

\* A retry after a failed operation has run the operation again, failed
\* again, and left nothing scheduled or stored under its key.
C4_Witness ==
    \E i \in Slots :
        /\ Done(i) /\ Checked(i)
        /\ reqs[i].afterFailure
        /\ reqs[i].invoked
        /\ reqs[i].opres.code >= 400
        /\ storeTasks = {} /\ putTasks = {}
        /\ ~HasItem(table, <<IdemPK(reqs[i].key), Metadata>>)

\* C5: degraded-store availability.  When the lookup of the idempotency
\* check raises, the check yields MISS, the business operation is invoked,
\* and the caller receives the operation's result, never the store's error.
C5_DegradedStoreIsMiss ==
    \A i \in Slots :
        Active(i) /\ reqs[i].fault
            => /\ reqs[i].cached = None
               /\ reqs[i].pc = "done"
                     => reqs[i].invoked /\ reqs[i].resp = reqs[i].opres

\* The lookup raised while a live record was stored; the operation ran and
\* its successful result is the response.
C5_Witness ==
    \E i \in Slots :
        /\ Done(i) /\ reqs[i].fault
        /\ reqs[i].sawExp > reqs[i].checkedAt
        /\ reqs[i].invoked
        /\ reqs[i].resp = reqs[i].opres
        /\ reqs[i].resp.code < 400

\* C6: expiry.  A record whose expires_at is less than or equal to the
\* current time is treated as absent by the check, although the row is
\* still in the table; this includes expires_at = now.
C6_ExpiredIsAbsent ==
    \A i \in Slots :
        /\ Checked(i)
        /\ reqs[i].sawExp >= 0
        /\ reqs[i].sawExp <= reqs[i].checkedAt
        => reqs[i].cached = None

\* C7: cross-caller isolation.  A record returned as a HIT was stored for
\* the caller of the request, and a request whose own key has no record is
\* a MISS whatever other callers stored under the same token.
C7_CrossCallerIsolation ==
    \A i \in Slots :
        Checked(i) /\ ~reqs[i].fault
            => /\ reqs[i].cached # None
                     => reqs[i].cached.target_task_pk = TaskPK(reqs[i].user_id)
               /\ reqs[i].sawExp = -1 => reqs[i].cached = None

\* The key another caller's request with the same headers gets.
KeyOfOther(r, other) ==
    other \o <<":">> \o SubSeq(r.key, Len(r.user_id) + 2, Len(r.key))

\* A caller's request was a MISS while the table held a live record another
\* caller stored under the same token.
C7_Witness ==
    \E i \in Slots :
        /\ Checked(i) /\ ~reqs[i].fault
        /\ reqs[i].cached = None
        /\ \E other \in UserIds \ {reqs[i].user_id} :
               StoredExpiration(table, KeyOfOther(reqs[i], other)) > now

\* The first non-empty of the Idempotency-Key header, X-Request-ID,
\* X-Amzn-RequestId and the generated UUID.
FirstNonEmpty(hdr, uuid) ==
    IF Truthy(hdr.idem) THEN hdr.idem
    ELSE IF Truthy(hdr.xreq) THEN hdr.xreq
    ELSE IF Truthy(hdr.amzn) THEN hdr.amzn
    ELSE uuid

\* C8: dedup token priority.  For every guarded endpoint, the request
\* identifier of an admitted request is the caller's id, ":", and the first
\* non-empty of Idempotency-Key, X-Request-ID, X-Amzn-RequestId and a fresh
\* UUID; a request that carries Idempotency-Key is keyed by its value.
C8_TokenPriority ==
    probe # None /\ probe.stage = "keyed"
        => probe.key = probe.sub \o <<":">> \o FirstNonEmpty(probe.hdr, ProbeUuid)

\* C9: a failure while building or persisting the idempotency record never
\* changes the outcome of the request: the caller receives the business
\* operation's result, and an invalid record is never queued or stored.
C9_StoreFailureHarmless ==
    /\ \A i \in Slots :
           Done(i) /\ reqs[i].invoked => reqs[i].resp = reqs[i].opres
    /\ \A p \in putTasks : IdempotencyCreateValid(p.rec)
    /\ \A k \in DOMAIN origin : StrLen(k) <= MaxRequestIdLen

\* A successful request holds the operation's result after its record failed
\* validation and was logged, nothing is stored under its key, and an earlier
\* request's put_item has failed as well.
C9_Witness ==
    \E i \in Slots :
        /\ Done(i) /\ reqs[i].invoked
        /\ reqs[i].opres.code < 400
        /\ reqs[i].resp = reqs[i].opres
        /\ StrLen(reqs[i].key) > MaxRequestIdLen
        /\ "Failed to queue idempotency record" \in log
        /\ storeTasks = {}
        /\ ~HasItem(table, <<IdemPK(reqs[i].key), Metadata>>)
        /\ "Error creating idempotency record" \in log

\* C10: deletion replay.  A delete request that repeats an earlier delete
\* with the same caller and token, after its record was stored and before it
\* expires, is answered with status 204 and the body {"status": "deleted"}.
C10_DeleteReplay ==
    \A i \in Slots :
        /\ Done(i) /\ Checked(i)
        /\ reqs[i].ep \in {"delete_user", "delete_task"}
        /\ RetryOfStored(reqs[i])
        => reqs[i].resp = Response(204, StatusDict("deleted"))

\* The fields of a stored idempotency record that the contract fixes.
RecordFields(item) ==
    <<item.response_data, item.http_status_code, item.target_task_pk,
      item.target_task_sk, item.expiration_timestamp>>

\* C11: record immutability.  Once an idempotency record exists for a key
\* and has not expired, no step changes its response body, status code,
\* target reference or expiry: a later write never replaces it.
C11_RecordImmutable ==
    [][\A k \in DOMAIN table :
          /\ IsIdempotencyItem(k)
          /\ table[k].expiration_timestamp > now
          /\ k \in DOMAIN table'
          => RecordFields(table'[k]) = RecordFields(table[k])]_vars

\* C12: ordering within a request.  The idempotency lookup completes before
\* the business operation starts, and a store task is scheduled only by the
\* step in which the request's operation completes successfully: no put is
\* scheduled for a request whose operation has not succeeded.
C12_Ordering ==
    /\ [](\A i \in Slots :
            /\ reqs[i].pc = "check"
                  => ~reqs[i].invoked /\ reqs[i].checkedAt = -1
            /\ Active(i) /\ reqs[i].invoked => reqs[i].checkedAt >= 0)
    /\ [][\A t \in storeTasks' \ storeTasks :
            \E i \in Slots :
                /\ reqs[i].pc = "exec"
                /\ reqs[i].checkedAt >= 0
                /\ reqs'[i].invoked
                /\ reqs'[i].opres.code < 400
                /\ t.call.request_id = reqs[i].key]_vars

\* A checked request has run its operation successfully and its store task
\* is scheduled.
C12_Witness ==
    \E i \in Slots :
        /\ Done(i) /\ reqs[i].invoked
        /\ reqs[i].checkedAt >= 0
        /\ reqs[i].opres.code < 400
        /\ \E t \in storeTasks :
               /\ t.call.request_id = reqs[i].key
               /\ t.orig.ep = reqs[i].ep
               /\ t.orig.resp = reqs[i].opres

\* The request identifiers of the clients served.
ServedKeys ==
    {get_request_id(c.hdr, c.sub, c.hdr.idem, ProbeUuid) : c \in Clients}

\* C13: after a business operation succeeds on the MISS path and its store
\* is scheduled, the put eventually runs to completion and the record is
\* visible to later lookups, whatever becomes of the request that
\* scheduled it.
C13_PutEventuallyLands ==
    \A k \in ServedKeys :
        (\E t \in storeTasks : t.call.request_id = k)
            ~> HasItem(table, <<IdemPK(k), Metadata>>)

\* C14: the accepted race window.  A request whose lookup runs while the
\* write of an earlier request with the same key is scheduled but has not
\* landed is never held back: its lookup and its operation can always take
\* their step, the lookup yields MISS and the request goes on to execute, so
\* both requests run the business operation.
C14_RaceWindow ==
    /\ [](\A i \in Slots :
            /\ reqs[i].pc = "check" => ENABLED Check(i, FALSE)
            /\ reqs[i].pc = "exec" => ENABLED Execute(i))
    /\ [][\A i \in Slots :
            /\ reqs[i].pc = "check"
            /\ reqs'[i] # reqs[i]
            /\ ~reqs'[i].fault
            /\ Pending(reqs[i].key)
            /\ ~HasItem(table, <<IdemPK(reqs[i].key), Metadata>>)
            => reqs'[i].cached = None /\ reqs'[i].pc = "exec"]_vars

\* The second request of a key has observed MISS and executed successfully
\* while the first one's put is still scheduled, and its own store task is
\* scheduled behind it.
C14_Witness ==
    \E i \in Slots :
        /\ Done(i) /\ reqs[i].invoked
        /\ reqs[i].opres.code < 400
        /\ ~reqs[i].fault /\ reqs[i].sawExp = -1
        /\ reqs[i].cached = None
        /\ \E p \in putTasks : p.rec.request_id = reqs[i].key
        /\ \E t \in storeTasks :
               t.call.request_id = reqs[i].key /\ t.orig.resp = reqs[i].opres

\* C15: the record stored after a successful operation holds the status
\* code returned to the original caller and, as response_data, the
\* serialization of the payload returned to the original caller.
C15_StoredBodyIsResponse ==
    \A k \in DOMAIN origin :
        HasItem(table, <<IdemPK(k), Metadata>>)
            => LET item == table[<<IdemPK(k), Metadata>>]
               IN /\ item.http_status_code = origin[k].resp.code
                  /\ JsonLoads(item.response_data) = origin[k].resp.body

\* C16: every stored idempotency record satisfies
\* expiration_timestamp = created_at + 86400.
C16_ExpiryFromCreation ==
    \A k \in DOMAIN table :
        IsIdempotencyItem(k)
            => table[k].expiration_timestamp = table[k].created_at + RETENTION

\* "{caller_identity}:{dedup_token}" when the identity is present, the
\* token alone when it is absent.
KeyFormat(identity, token) ==
    IF identity # Absent /\ identity # Empty
    THEN identity \o <<":">> \o token
    ELSE token

\* C17: the idempotency key is "{caller_identity}:{dedup_token}" when a
\* caller identity is present and the dedup token alone when it is absent,
\* in get_request_id and in generate_request_id alike, for every identity
\* and token.
C17_KeyFormat ==
    probe # None /\ probe.stage = "formatted"
        => /\ probe.key = KeyFormat(probe.user_id,
                                    FirstNonEmpty(probe.hdr, ProbeUuid))
           /\ probe.gen = KeyFormat(probe.user_id,
                                    IF probe.hdr.idem # Absent /\ probe.hdr.idem # Empty
                                    THEN probe.hdr.idem ELSE ProbeUuid)

\* Both functions have formatted caller u with token k, and nothing else
\* about the request enters the key.
C17_Witness ==
    /\ probe # None /\ probe.stage = "formatted"
    /\ probe.user_id = <<"u">>
    /\ probe.hdr.idem = <<"k">>
    /\ probe.hdr.xreq = <<"j">>
    /\ probe.key = <<"u", ":", "k">>
    /\ probe.gen = <<"u", ":", "k">>

\* C18: store round trip.  After create_idempotency(record) has returned,
\* get_idempotency(record.request_id) returns a record with the same
\* request_id, response_data, target reference, status code and expiration
\* timestamp, for every valid request_id, until the record is deleted.
C18_StoreRoundTrip ==
    \A id \in DOMAIN probe.written :
        LET rec == probe.written[id]
            got == get_idempotency(table, id, FALSE)
        IN /\ got.kind = "record"
           /\ got.request_id = rec.request_id
           /\ got.response_data = rec.response_data
           /\ got.target_task_pk = rec.target_task_pk
           /\ got.target_task_sk = rec.target_task_sk
           /\ got.http_status_code = rec.http_status_code
           /\ got.expiration_timestamp = rec.expiration_timestamp

\* C19: delete_idempotency(key) is an idempotent delete: it can be called
\* whether or not a record exists, afterwards get_idempotency(key) returns
\* absent, deleting again changes nothing, and every other item of the
\* table is as it was.
C19_IdempotentDelete ==
    /\ \A id \in RepoIds : ENABLED RepoDelete(id)
    /\ probe.op = "delete"
          => /\ get_idempotency(table, probe.request_id, FALSE) = None
             /\ delete_idempotency(table, probe.request_id) = table
             /\ DOMAIN table =
                   DOMAIN probe.before \ {<<IdemPK(probe.request_id), Metadata>>}
             /\ \A k \in DOMAIN table : table[k] = probe.before[k]

\* delete_idempotency has just been called for a key without a record
\* while records of other keys are stored.
C19_Witness ==
    /\ probe.op = "delete"
    /\ ~HasItem(probe.before, <<IdemPK(probe.request_id), Metadata>>)
    /\ \E id \in RepoIds \ {probe.request_id} :
           HasItem(table, <<IdemPK(id), Metadata>>)

\* C20: a task whose stored status is completed never afterwards has a
\* different stored status, across any sequence or interleaving of
\* update_task calls.
C20_CompletedIsFinal ==
    [][\A k \in DOMAIN table :
          /\ "status" \in DOMAIN table[k]
          /\ table[k].status = "completed"
          /\ k \in DOMAIN table'
          => table'[k].status = "completed"]_vars

\* C21: user isolation of tasks.  A task created by one user is never
\* returned by get_task or get_tasks called for a different user, and
\* update_task or delete_task called for a different user with that task's
\* id neither modifies nor removes it.
C21_TaskIsolation ==
    [][LET caller == probe'.user_id
           k == <<TaskPK(caller), TaskSK(probe'.task_id)>>
       IN /\ probe'.op = "get" /\ probe'.result.kind = "task"
                => k \in DOMAIN probe.owner /\ probe.owner[k] = caller
          /\ probe'.op = "list"
                => \A sk \in DOMAIN probe'.result.tasks :
                      /\ <<TaskPK(caller), sk>> \in DOMAIN probe.owner
                      /\ probe.owner[<<TaskPK(caller), sk>>] = caller
          /\ probe'.op \in {"update", "delete"}
                => \A x \in DOMAIN table :
                      probe.owner[x] # caller
                          => x \in DOMAIN table' /\ table'[x] = table[x]]_vars

\* User v has just deleted a task of its own while user u holds a task
\* with the same id, which is still stored.
C21_Witness ==
    /\ probe.op = "delete"
    /\ probe.user_id = <<"v">>
    /\ probe.result = None
    /\ HasItem(table, <<TaskPK(<<"u">>), TaskSK(probe.task_id)>>)

\* C22: for a given user_id, across any sequence or interleaving of
\* create_or_get_user and create_user calls, the repository create is
\* performed only when no user record exists for that user_id, and an
\* existing user's stored record is never overwritten by a create.
C22_CreateOnlyWhenAbsent ==
    [][\A w \in Workers :
          probe[w].pc = "create" /\ probe'[w].pc = "idle"
              => /\ ~HasItem(table, <<UserPK(probe[w].user_id), Metadata>>)
                 /\ \A k \in DOMAIN table :
                       k \in DOMAIN table' /\ table'[k] = table[k]]_vars

\* The request in slot i came without a resolvable caller identity.
Unidentified(i) == Active(i) /\ reqs[i].user_id = Absent

Yielding(records) ==
    {i \in 1..Len(records) : process_dynamodb_record(records[i], i).kind = "record"}
Raising(records) ==
    {i \in 1..Len(records) : process_dynamodb_record(records[i], i).kind = "raise"}

C25_KeyInjective ==
    probe.stage = "derived" /\ probe.a # probe.b
        => /\ probe.key_a # probe.key_b
           /\ probe.gen_a # probe.gen_b
           /\ ~probe.hit

\* C26: a replayed request performs no write to the user/task entity store:
\* for every guarded endpoint the set of user and task items is identical
\* before and after a request that is answered from the idempotency record
\* (neither the user record ensured on arrival nor the business operation
\* has written).
C26_ReplayWritesNothing ==
    \A i \in Slots :
        /\ Done(i)
        /\ Checked(i)
        /\ reqs[i].cached # None
        /\ ReplaysOnHit(reqs[i].ep)
        => ~reqs[i].ensured /\ ~reqs[i].invoked

\* C27: validate_request_scope agrees with key construction.  With no
\* expected user it returns True; with a non-empty expected user u it
\* returns True for every key generate_request_id(u, t), and False for every
\* key generate_request_id(v, t) with v # u and for every key that carries
\* no user prefix.
C27_ScopeAgreesWithKeys ==
    probe.stage = "validated"
        => /\ ~Truthy(probe.expected_user_id) => probe.valid
           /\ Truthy(probe.expected_user_id)
                 => probe.valid = (probe.user_id = probe.expected_user_id)

C29_MissingTaskFails ==
    [][LET k == <<TaskPK(probe'.user_id), TaskSK(probe'.task_id)>>
       IN /\ probe' # probe /\ probe'.op = "update" /\ ~HasItem(table, k)
                => /\ probe'.result = [kind |-> "raise", error |-> "ValueError"]
                   /\ table' = table
          /\ probe' # probe /\ probe'.op = "delete" /\ ~HasItem(table, k)
                => /\ probe'.result = [kind |-> "raise", error |-> "ClientError"]
                   /\ table' = table]_vars

\* update_task has just failed for a task id that another user holds and
\* the caller does not.
C29_Witness ==
    /\ probe.op = "update"
    /\ probe.result = [kind |-> "raise", error |-> "ValueError"]
    /\ ~HasItem(table, <<TaskPK(probe.user_id), TaskSK(probe.task_id)>>)
    /\ \E other \in UserIds \ {probe.user_id} :
          HasItem(table, <<TaskPK(other), TaskSK(probe.task_id)>>)

\* The partition/sort key pair of the entity a request's operation acts on.
EntityKey(r) ==
    IF r.ep \in UserEndpoints THEN <<UserPK(r.user_id), Metadata>>
    ELSE <<TaskPK(r.user_id), TaskSK(r.task_id)>>

\* C30: the target_reference written into an idempotency record
\* (target_task_pk, target_task_sk) equals the partition/sort key pair of
\* the entity the guarded operation acted on, for task operations and for
\* user operations alike: so does the record of every store task a handler
\* schedules.
C30_TargetIsEntity ==
    [][\A i \in Slots :
          reqs[i].pc = "exec"
              => \A t \in storeTasks' \ storeTasks :
                    LET rec == IdempotencyRecord(t.call.request_id, t.call.user_id,
                                   t.call.task_id, t.call.response_data,
                                   t.call.status_code, now)
                    IN <<rec.target_task_pk, rec.target_task_sk>>
                          = EntityKey(reqs[i])]_vars

====
